---- MODULE Spec2Model ----
(***************************************************************************)
(* AnimatedProgressCircle and AnimatedProgressBar as state machines.       *)
(*                                                                         *)
(* One component instance is followed through mount, re-render (new        *)
(* props), the passive effects of each commit, the animation frames of the *)
(* UI thread, layout events and unmount.  Numbers are fixed-point: the JS  *)
(* number 1 is One units, so a progress of 0.5 is One \div 2.  Durations   *)
(* are counted in animation frames.  Lengths along the circle are kept in  *)
(* units of pi, widths in pixels.                                          *)
(***************************************************************************)
EXTENDS Integers, Sequences, FiniteSets, TLC

\* ---------------------------------------------------------------- numbers

\* The JS number 1 (Math.min(1, progress)) in fixed-point units.
One == 4

\* The JS value NaN, which `number` admits; it is no ordinary integer here.
NaN == -1000000

\* The width prop's null (and its default).
Null == -1

\* withTiming(360, ...): one full turn of the spinner, in degrees.
FullTurn == 360

\* circumference * 0.25 and circumference * 0.75, in percent.
ArcPercent == 25
GapPercent == 75

\* containerWidth.value * 0.3, in percent.
SegmentPercent == 30

\* How far below 0 and above 1 the progress prop is taken (in units).
Over == 1

\* The longest duration prop, in animation frames.
MaxDuration == 2

\* The most layout events that wait for the JS thread at once.
MaxQueue == 2

IsNaN(x) == x = NaN

\* Math.min(a, b) and Math.max(a, b): NaN if either argument is NaN.
JsMin(a, b) == IF IsNaN(a) \/ IsNaN(b) THEN NaN ELSE IF a < b THEN a ELSE b

JsMax(a, b) == IF IsNaN(a) \/ IsNaN(b) THEN NaN ELSE IF a > b THEN a ELSE b

\* Math.max(0, Math.min(1, progress))
Clamp(progress) == JsMax(0, JsMin(One, progress))

\* a * b and a - b on JS numbers: NaN is absorbing.
Mul(a, b) == IF IsNaN(a) \/ IsNaN(b) THEN NaN ELSE a * b

Sub(a, b) == IF IsNaN(a) \/ IsNaN(b) THEN NaN ELSE a - b

\* JS truthiness of the width prop: null, 0 (and NaN) are falsy.
Truthy(width) == width # Null /\ width # 0 /\ ~IsNaN(width)

\* ------------------------------------------------------------- animations

\* A shared value holds a number and at most one animation that drives it.
NoAnimation ==
  [type |-> "none", toValue |-> 0, startValue |-> 0, elapsed |-> 0,
   duration |-> 0, reverse |-> FALSE]

\* useSharedValue(initial)
useSharedValue(initial) == [value |-> initial, animation |-> NoAnimation]

\* withTiming(toValue, {duration}): the animation object, not yet started.
withTiming(toValue, duration) ==
  [type |-> "timing", toValue |-> toValue, startValue |-> 0, elapsed |-> 0,
   duration |-> duration, reverse |-> FALSE]

\* withRepeat(withTiming(toValue, {duration}), -1, reverse)
withRepeat(timing, reverse) ==
  [timing EXCEPT !.type = "repeat", !.reverse = reverse]

\* sv.value = x for a plain number: the running animation is dropped.
SetValue(sv, x) == [value |-> x, animation |-> NoAnimation]

\* a === b on JS numbers: NaN equals nothing.
StrictEquals(a, b) == ~IsNaN(a) /\ ~IsNaN(b) /\ a = b

\* A variant of StartAnimation that leaves a running timing alone.
KeepRunning(sv, animation) ==
  IF sv.animation.type = "timing" THEN sv
  ELSE [value |-> sv.value,
        animation |-> [animation EXCEPT !.startValue = sv.value,
                                        !.elapsed = 0]]

\* sv.value = animation: the running animation is dropped and the new one
\* starts from the value held now.  A timing whose toValue is the value held
\* now is not started at all.  A timing started over a running timing with
\* the same toValue keeps that one's start time and start value.
StartAnimation(sv, animation) ==
  IF animation.type = "timing" /\ StrictEquals(sv.value, animation.toValue)
  THEN [value |-> sv.value, animation |-> NoAnimation]
  ELSE IF /\ animation.type = "timing"
          /\ sv.animation.type = "timing"
          /\ StrictEquals(sv.animation.toValue, animation.toValue)
  THEN [value |-> sv.value,
        animation |-> [animation EXCEPT
                         !.startValue = sv.animation.startValue,
                         !.elapsed = sv.animation.elapsed]]
  ELSE [value |-> sv.value,
        animation |-> [animation EXCEPT !.startValue = sv.value,
                                        !.elapsed = 0]]

\* cancelAnimation(sv): the value stays where the animation left it.
cancelAnimation(sv) == [value |-> sv.value, animation |-> NoAnimation]

\* The value a timing shows `elapsed` frames after its start.
Interpolate(startValue, toValue, elapsed, duration) ==
  IF IsNaN(startValue) \/ IsNaN(toValue) THEN NaN
  ELSE startValue + ((toValue - startValue) * elapsed) \div duration

\* One animation frame of a shared value.
TimingFrame(sv) ==
  LET a == sv.animation
      e == a.elapsed + 1
  IN IF e >= a.duration
     THEN [value |-> a.toValue, animation |-> NoAnimation]
     ELSE [value |-> Interpolate(a.startValue, a.toValue, e, a.duration),
           animation |-> [a EXCEPT !.elapsed = e]]

RepeatFrame(sv) ==
  LET a == sv.animation
      e == a.elapsed + 1
  IN IF e >= a.duration
     THEN [value |-> a.toValue,
           animation |->
             IF a.reverse
             THEN [a EXCEPT !.startValue = a.toValue,
                            !.toValue = a.startValue, !.elapsed = 0]
             ELSE [a EXCEPT !.elapsed = 0]]
     ELSE [value |-> Interpolate(a.startValue, a.toValue, e, a.duration),
           animation |-> [a EXCEPT !.elapsed = e]]

FrameOf(sv) ==
  CASE sv.animation.type = "timing" -> TimingFrame(sv)
    [] sv.animation.type = "repeat" -> RepeatFrame(sv)
    [] OTHER -> sv

Running(sv) == sv.animation.type # "none"

\* --------------------------------------------------------------- geometry

\* Lengths along the circle are in units of pi; products with a fraction are
\* in units of 1/One, products with a percentage in units of 1/100.

\* const radius = (size - thickness) / 2
Radius(size, thickness) == (size - thickness) \div 2

\* const circumference = 2 * Math.PI * radius
Circumference(size, thickness) == 2 * Radius(size, thickness)

\* determinateProps: the strokeDashoffset of the arc.
determinateProps(circumference, isCounterClockwise, value) ==
  LET offset == Mul(circumference, Sub(One, value))
  IN IF isCounterClockwise THEN Sub(0, offset) ELSE offset

\* indeterminateProps: the strokeDasharray of the spinning arc.
indeterminateProps(circumference) ==
  [arcLength |-> circumference * ArcPercent,
   gapLength |-> circumference * GapPercent,
   strokeDashoffset |-> 0]

\* determinateStyle: the width of the filled rectangle.
determinateStyle(width, value) == Mul(width, value)

\* indeterminateStyle: the width and the offset of the moving segment;
\* interpolate(x, [0, 1], [0, maxTranslate]) is x * maxTranslate.
indeterminateStyle(width, value) ==
  LET barWidth == width * SegmentPercent
      maxTranslate == width * 100 - barWidth
  IN [width |-> barWidth, translateX |-> Mul(value, maxTranslate)]

\* ---------------------------------------------------------------- state

VARIABLES
  component,          \* "circle" or "bar": which component this instance is
  phase,              \* "unmounted", "mounted" or "unmounting"
  props,              \* the props of the latest commit
  pending,            \* the effects of the latest commit that have yet to run
  lastToggle,         \* what the latest commit did to indeterminate
  replaced,           \* what the latest progress effect did to a running
                      \* transition: "none", "redirected" or "cancelled"
  progressValue,      \* useSharedValue(clamp(progress))
  spinRotation,       \* circle: useSharedValue(0)
  indeterminateValue, \* bar: useSharedValue(0)
  containerWidth,     \* bar: useSharedValue(width || 0)
  parentWidth,        \* bar: the width the host offers a '100%' container
  nativeWidth,        \* bar: the container's width at the last layout pass
  layoutQueue,        \* bar: layout events emitted and not yet handled
  lastLayout          \* bar: the width of the layout event handled last

vars ==
  <<component, phase, props, pending, lastToggle, replaced, progressValue,
    spinRotation, indeterminateValue, containerWidth, parentWidth,
    nativeWidth, layoutQueue, lastLayout>>

barVars ==
  <<indeterminateValue, containerWidth, parentWidth, nativeWidth,
    layoutQueue, lastLayout>>

\* ---------------------------------------------------------------- inputs

ProgressValues == ((0 - Over)..(One + Over)) \cup {NaN}

Durations == 1..MaxDuration

ExplicitWidths == {100, 200}

ParentWidths == {200, 300}

\* Props that vary what drives the progress fraction.
CircleProps ==
  [progress : ProgressValues, animated : BOOLEAN,
   animationDuration : Durations, indeterminate : BOOLEAN,
   spinDuration : {1}, indeterminateDuration : {1}, width : {Null}]

BarProps ==
  [progress : ProgressValues, animated : BOOLEAN,
   animationDuration : Durations, indeterminate : BOOLEAN,
   spinDuration : {1}, indeterminateDuration : {1}, width : {Null}]

\* Props that vary what drives the looping transition.
CircleLoopProps ==
  [progress : {0, One}, animated : BOOLEAN, animationDuration : Durations,
   indeterminate : BOOLEAN, spinDuration : Durations,
   indeterminateDuration : {1}, width : {Null}]

BarLoopProps ==
  [progress : {0, One}, animated : BOOLEAN, animationDuration : Durations,
   indeterminate : BOOLEAN, spinDuration : {1},
   indeterminateDuration : Durations, width : {100}]

\* Props that vary the bar's width.
BarWidthProps ==
  [progress : {One \div 2, One}, animated : {TRUE}, animationDuration : {1},
   indeterminate : {FALSE}, spinDuration : {1}, indeterminateDuration : {1},
   width : {Null, 0} \cup ExplicitWidths]

\* The circle's geometry props.
Sizes == {50, 100}

Thicknesses == {4, 8}

\* The dependency arrays of the effects.
CircleProgressDeps(p) ==
  <<p.progress, p.animated, p.animationDuration, p.indeterminate>>

\* A variant of SpinDeps that leaves out indeterminate.
SpinDepsNoMode(p) == <<p.spinDuration>>

SpinDeps(p) == <<p.indeterminate, p.spinDuration>>

\* A variant of BarProgressDeps that leaves out indeterminate.
BarProgressDepsNoMode(p) == <<p.progress, p.animated, p.animationDuration>>

BarProgressDeps(p) ==
  <<p.progress, p.animated, p.animationDuration, p.indeterminate>>

IndeterminateDeps(p) == <<p.indeterminate, p.indeterminateDuration>>

WidthDeps(p) == <<p.width>>

\* What an assignment to the progress value does to a running transition.
Replaced(old, new) ==
  IF old.animation.type # "timing" THEN "none"
  ELSE IF new.animation.type # "timing" THEN "cancelled"
  ELSE IF new.animation.toValue # old.animation.toValue THEN "redirected"
  ELSE "none"

Toggle(old, new) ==
  IF old.indeterminate = new.indeterminate THEN "none"
  ELSE IF new.indeterminate THEN "on" ELSE "off"

\* ------------------------------------------------------------- predicates

Mounted == phase = "mounted"

Flushed == pending = {}

\* ----------------------------------------------------------------- circle

\* useEffect: update progress when the prop changes.
CircleProgressEffect(p, sv) ==
  LET clampedProgress == Clamp(p.progress)
  IN IF p.animated /\ ~p.indeterminate
     THEN StartAnimation(sv, withTiming(clampedProgress, p.animationDuration))
     ELSE SetValue(sv, clampedProgress)

\* useEffect: the indeterminate spinning animation (the effect's body).
CircleSpinEffect(p, sv) ==
  IF p.indeterminate
  THEN StartAnimation(sv, withRepeat(withTiming(FullTurn, p.spinDuration),
                                     FALSE))
  ELSE SetValue(cancelAnimation(sv), 0)

\* A variant of CircleSpinCleanup that cancels nothing.
CircleSpinCleanupMissing(sv) == sv

\* The cleanup the spin effect returns.
CircleSpinCleanup(sv) == cancelAnimation(sv)

CircleMount(p) ==
  /\ component = "circle"
  /\ phase = "unmounted"
  /\ phase' = "mounted"
  /\ props' = p
  /\ pending' = {"progress", "spin"}
  /\ lastToggle' = "none"
  /\ replaced' = "none"
  /\ progressValue' = useSharedValue(Clamp(p.progress))
  /\ spinRotation' = useSharedValue(0)
  /\ UNCHANGED <<component, barVars>>

CircleRender(p) ==
  /\ component = "circle"
  /\ Mounted /\ Flushed
  /\ p # props
  /\ props' = p
  /\ pending' =
       {e \in {"progress"} : CircleProgressDeps(p) # CircleProgressDeps(props)}
         \cup {e \in {"spin"} : SpinDeps(p) # SpinDeps(props)}
  /\ lastToggle' = Toggle(props, p)
  /\ UNCHANGED <<component, phase, replaced, progressValue, spinRotation,
                 barVars>>

\* The passive effects of the latest commit: the cleanups of the effects
\* that run again, then their bodies, in the order of the source.
CircleRunEffects ==
  /\ component = "circle"
  /\ Mounted /\ ~Flushed
  /\ progressValue' =
       IF "progress" \in pending
       THEN CircleProgressEffect(props, progressValue)
       ELSE progressValue
  /\ spinRotation' =
       IF "spin" \in pending
       THEN CircleSpinEffect(props, CircleSpinCleanup(spinRotation))
       ELSE spinRotation
  /\ replaced' =
       IF "progress" \in pending
       THEN Replaced(progressValue, progressValue')
       ELSE replaced
  /\ pending' = {}
  /\ UNCHANGED <<component, phase, props, lastToggle, barVars>>

CircleUnmount ==
  /\ component = "circle"
  /\ Mounted /\ Flushed
  /\ phase' = "unmounting"
  /\ lastToggle' = "none"
  /\ UNCHANGED <<component, props, pending, replaced, progressValue,
                 spinRotation, barVars>>

\* The cleanups of the unmounted instance.
CircleUnmountEffects ==
  /\ component = "circle"
  /\ phase = "unmounting"
  /\ phase' = "unmounted"
  /\ spinRotation' = CircleSpinCleanup(spinRotation)
  /\ UNCHANGED <<component, props, pending, lastToggle, replaced,
                 progressValue,
                 barVars>>

\* -------------------------------------------------------------------- bar

\* containerStyle: width: (width || '100%'), laid out by the host.
RenderedWidth(p, parent) == IF Truthy(p.width) THEN p.width ELSE parent

\* A layout pass: an event is emitted when the container's width changed.
LayoutPass(width) ==
  IF width = nativeWidth
  THEN UNCHANGED <<nativeWidth, layoutQueue>>
  ELSE /\ Len(layoutQueue) < MaxQueue
       /\ nativeWidth' = width
       /\ layoutQueue' = Append(layoutQueue, width)

\* useEffect: update progress when the prop changes.
BarProgressEffect(p, sv) ==
  LET clampedProgress == Clamp(p.progress)
  IN IF p.animated /\ ~p.indeterminate
     THEN StartAnimation(sv, withTiming(clampedProgress, p.animationDuration))
     ELSE SetValue(sv, clampedProgress)

\* useEffect: the indeterminate animation (the effect's body).
BarIndeterminateEffect(p, sv) ==
  IF p.indeterminate
  THEN StartAnimation(sv, withRepeat(withTiming(One, p.indeterminateDuration),
                                     TRUE))
  ELSE SetValue(cancelAnimation(sv), 0)

\* The cleanup the indeterminate effect returns.
BarIndeterminateCleanup(sv) == cancelAnimation(sv)

\* A variant of BarWidthEffect that leaves containerWidth alone.
BarWidthEffectMissing(p, sv) == sv

\* useEffect: update the container width when the prop changes.
BarWidthEffect(p, sv) == IF Truthy(p.width) THEN SetValue(sv, p.width) ELSE sv

BarMount(p) ==
  /\ component = "bar"
  /\ phase = "unmounted"
  /\ phase' = "mounted"
  /\ props' = p
  /\ pending' = {"progress", "indeterminate", "width"}
  /\ lastToggle' = "none"
  /\ replaced' = "none"
  /\ progressValue' = useSharedValue(Clamp(p.progress))
  /\ indeterminateValue' = useSharedValue(0)
  /\ containerWidth' = useSharedValue(IF Truthy(p.width) THEN p.width ELSE 0)
  /\ nativeWidth' = RenderedWidth(p, parentWidth)
  /\ layoutQueue' = <<RenderedWidth(p, parentWidth)>>
  /\ lastLayout' = Null
  /\ UNCHANGED <<component, spinRotation, parentWidth>>

BarRender(p) ==
  /\ component = "bar"
  /\ Mounted /\ Flushed
  /\ p # props
  /\ props' = p
  /\ pending' =
       {e \in {"progress"} : BarProgressDeps(p) # BarProgressDeps(props)}
         \cup {e \in {"indeterminate"} :
                 IndeterminateDeps(p) # IndeterminateDeps(props)}
         \cup {e \in {"width"} : WidthDeps(p) # WidthDeps(props)}
  /\ lastToggle' = Toggle(props, p)
  /\ LayoutPass(RenderedWidth(p, parentWidth))
  /\ UNCHANGED <<component, phase, replaced, progressValue, spinRotation,
                 indeterminateValue, containerWidth, parentWidth, lastLayout>>

BarRunEffects ==
  /\ component = "bar"
  /\ Mounted /\ ~Flushed
  /\ progressValue' =
       IF "progress" \in pending
       THEN BarProgressEffect(props, progressValue)
       ELSE progressValue
  /\ indeterminateValue' =
       IF "indeterminate" \in pending
       THEN BarIndeterminateEffect(props,
                                   BarIndeterminateCleanup(indeterminateValue))
       ELSE indeterminateValue
  /\ containerWidth' =
       IF "width" \in pending
       THEN BarWidthEffect(props, containerWidth)
       ELSE containerWidth
  /\ replaced' =
       IF "progress" \in pending
       THEN Replaced(progressValue, progressValue')
       ELSE replaced
  /\ pending' = {}
  /\ UNCHANGED <<component, phase, props, lastToggle, spinRotation,
                 parentWidth, nativeWidth, layoutQueue, lastLayout>>

\* handleLayout, called with the oldest layout event that waits.
handleLayout ==
  /\ component = "bar"
  /\ Mounted
  /\ layoutQueue # <<>>
  /\ containerWidth' =
       IF ~Truthy(props.width)
       THEN SetValue(containerWidth, Head(layoutQueue))
       ELSE containerWidth
  /\ lastLayout' = Head(layoutQueue)
  /\ layoutQueue' = Tail(layoutQueue)
  /\ UNCHANGED <<component, phase, props, pending, lastToggle, replaced,
                 progressValue,
                 spinRotation, indeterminateValue, parentWidth, nativeWidth>>

\* The host resizes the container's parent.
ParentResize(width) ==
  /\ component = "bar"
  /\ Mounted
  /\ width # parentWidth
  /\ parentWidth' = width
  /\ LayoutPass(RenderedWidth(props, width))
  /\ UNCHANGED <<component, phase, props, pending, lastToggle, replaced,
                 progressValue,
                 spinRotation, indeterminateValue, containerWidth, lastLayout>>

BarUnmount ==
  /\ component = "bar"
  /\ Mounted /\ Flushed
  /\ phase' = "unmounting"
  /\ layoutQueue' = <<>>
  /\ lastToggle' = "none"
  /\ UNCHANGED <<component, props, pending, replaced, progressValue,
                 spinRotation, indeterminateValue, containerWidth,
                 parentWidth, nativeWidth, lastLayout>>

\* The cleanups of the unmounted instance.
BarUnmountEffects ==
  /\ component = "bar"
  /\ phase = "unmounting"
  /\ phase' = "unmounted"
  /\ indeterminateValue' = BarIndeterminateCleanup(indeterminateValue)
  /\ UNCHANGED <<component, props, pending, lastToggle, replaced,
                 progressValue,
                 spinRotation, containerWidth, parentWidth, nativeWidth,
                 layoutQueue, lastLayout>>

\* ------------------------------------------------------------------ frame

\* One frame of the UI thread: every running animation advances.
Frame ==
  /\ Running(progressValue) \/ Running(spinRotation)
       \/ Running(indeterminateValue)
  /\ progressValue' = FrameOf(progressValue)
  /\ spinRotation' = FrameOf(spinRotation)
  /\ indeterminateValue' = FrameOf(indeterminateValue)
  /\ UNCHANGED <<component, phase, props, pending, lastToggle, replaced,
                 containerWidth, parentWidth, nativeWidth, layoutQueue,
                 lastLayout>>

\* ------------------------------------------------------------------- spec

DefaultProps ==
  [progress |-> 0, animated |-> TRUE, animationDuration |-> 1,
   indeterminate |-> FALSE, spinDuration |-> 1, indeterminateDuration |-> 1,
   width |-> Null]

Init ==
  /\ component \in {"circle", "bar"}
  /\ phase = "unmounted"
  /\ props = DefaultProps
  /\ pending = {}
  /\ lastToggle = "none"
  /\ replaced = "none"
  /\ progressValue = useSharedValue(0)
  /\ spinRotation = useSharedValue(0)
  /\ indeterminateValue = useSharedValue(0)
  /\ containerWidth = useSharedValue(0)
  /\ parentWidth = 200
  /\ nativeWidth = Null
  /\ layoutQueue = <<>>
  /\ lastLayout = Null

Next ==
  \/ \E p \in CircleProps : CircleMount(p)
  \/ \E p \in CircleProps : CircleRender(p)
  \/ CircleRunEffects
  \/ CircleUnmount
  \/ CircleUnmountEffects
  \/ \E p \in BarProps : BarMount(p)
  \/ \E p \in BarProps : BarRender(p)
  \/ BarRunEffects
  \/ handleLayout
  \/ BarUnmount
  \/ BarUnmountEffects
  \/ Frame

Spec == Init /\ [][Next]_vars

\* Both components, the props of the looping transition varied.
NextLoop ==
  \/ \E p \in CircleLoopProps : CircleMount(p)
  \/ \E p \in CircleLoopProps : CircleRender(p)
  \/ CircleRunEffects
  \/ CircleUnmount
  \/ CircleUnmountEffects
  \/ \E p \in BarLoopProps : BarMount(p)
  \/ \E p \in BarLoopProps : BarRender(p)
  \/ BarRunEffects
  \/ handleLayout
  \/ BarUnmount
  \/ BarUnmountEffects
  \/ Frame

SpecLoop == Init /\ [][NextLoop]_vars

\* The bar alone, its width prop and its parent's width varied.
InitWidth == Init /\ component = "bar"

NextWidth ==
  \/ \E p \in BarWidthProps : BarMount(p)
  \/ \E p \in BarWidthProps : BarRender(p)
  \/ BarRunEffects
  \/ handleLayout
  \/ \E w \in ParentWidths : ParentResize(w)
  \/ BarUnmount
  \/ BarUnmountEffects
  \/ Frame

SpecWidth == InitWidth /\ [][NextWidth]_vars

\* The animation frames come for as long as an animation runs, and the
\* passive effects of a commit are flushed.
Fairness ==
  /\ WF_vars(Frame)
  /\ WF_vars(CircleRunEffects)
  /\ WF_vars(BarRunEffects)

FairLoop == SpecLoop /\ Fairness

\* ----------------------------------------------------------------- claims

\* The shared value that carries the looping transition.
LoopValue == IF component = "circle" THEN spinRotation ELSE indeterminateValue

InUnit(x) == x \in 0..One

AtRest == Mounted /\ Flushed /\ ~Running(progressValue)

\* C1: the fraction held and the target of a running progress transition
\* are within [0,1] for every progress prop, and once the effects have run
\* the target is clamp(progress) of the progress prop last given.
C1_FractionInUnitInterval ==
  /\ InUnit(progressValue.value)
  /\ Running(progressValue) => InUnit(progressValue.animation.toValue)
  /\ (Mounted /\ Flushed /\ Running(progressValue))
       => progressValue.animation.toValue = Clamp(props.progress)

\* C2: a looping transition runs only on the component's own loop value and
\* only while the instance is mounted with indeterminate = true; once the
\* cleanups of an unmount or the effects of a switch to determinate have
\* run, none is ticking.
C2_LoopOnlyWhileIndeterminate ==
  /\ Running(spinRotation) =>
       component = "circle" /\ spinRotation.animation.type = "repeat"
  /\ Running(indeterminateValue) =>
       component = "bar" /\ indeterminateValue.animation.type = "repeat"
  /\ phase = "unmounted" => ~Running(LoopValue)
  /\ (Mounted /\ Flushed /\ ~props.indeterminate) => ~Running(LoopValue)
  /\ (Mounted /\ Flushed /\ props.indeterminate) => Running(LoopValue)
  /\ Running(LoopValue) => props.indeterminate \/ ~Flushed

\* An indeterminate instance whose loop had ticked has been unmounted.
C2_Witness ==
  /\ phase = "unmounted"
  /\ props.indeterminate
  /\ LoopValue.value # 0
  /\ ~Running(LoopValue)

\* C3: after indeterminate was switched from true to false on a mounted
\* component, the loop is stopped once the effects have run, a progress
\* transition that runs is a timing towards clamp(progress) that is less
\* than animationDuration frames old, and unless the props change again
\* the fraction comes to rest at clamp(progress).
C3_SwitchToDeterminateConverges ==
  /\ []((lastToggle = "off" /\ Mounted /\ Flushed) =>
          /\ ~Running(LoopValue)
          /\ Running(progressValue) =>
               /\ progressValue.animation.type = "timing"
               /\ progressValue.animation.toValue = Clamp(props.progress)
               /\ progressValue.animation.duration = props.animationDuration
               /\ progressValue.animation.elapsed < props.animationDuration)
  /\ (lastToggle = "off") ~>
       \/ lastToggle # "off"
       \/ /\ Flushed
          /\ ~Running(LoopValue)
          /\ ~Running(progressValue)
          /\ progressValue.value = Clamp(props.progress)

\* The switch came with a new progress, and the transition is under way.
C3_Witness ==
  /\ lastToggle = "off"
  /\ Mounted /\ Flushed
  /\ Running(progressValue)
  /\ progressValue.value # Clamp(props.progress)

\* C4: in determinate mode, once the effects of the latest commit have run,
\* a running progress transition heads for clamp(latest progress), and the
\* fraction at rest is clamp(latest progress).
C4_LatestProgressWins ==
  (Mounted /\ Flushed /\ ~props.indeterminate) =>
    IF Running(progressValue)
    THEN /\ progressValue.animation.type = "timing"
         /\ progressValue.animation.toValue = Clamp(props.progress)
    ELSE progressValue.value = Clamp(props.progress)

\* A transition was redirected while it ran, and the fraction has come to
\* rest at the latest target.
C4_Witness ==
  /\ replaced = "redirected"
  /\ AtRest
  /\ ~props.indeterminate
  /\ progressValue.value = Clamp(props.progress)

\* C10: once the effects have run, no timed progress transition runs while
\* animated is false or indeterminate is true, and the fraction is then
\* clamp(progress); a transition that runs is a timing over
\* animationDuration, with animated true and indeterminate false.
C10_TimedOnlyWhenAnimatedDeterminate ==
  /\ (Mounted /\ Flushed /\ (~props.animated \/ props.indeterminate)) =>
       /\ ~Running(progressValue)
       /\ progressValue.value = Clamp(props.progress)
  /\ (Mounted /\ Flushed /\ Running(progressValue)) =>
       /\ props.animated /\ ~props.indeterminate
       /\ progressValue.animation.type = "timing"
       /\ progressValue.animation.duration = props.animationDuration

\* The switch to indeterminate cancelled a running progress transition.
C10_Witness ==
  /\ replaced = "cancelled"
  /\ lastToggle = "on"
  /\ Mounted /\ Flushed
  /\ ~Running(progressValue)

\* C5: while the circle is indeterminate the arc is 25% of the
\* circumference and the gap 75%, and the spin is a loop without reverse
\* whose every cycle runs from 0 to 360 degrees over spinDuration.
C5_SpinCyclesFullTurn ==
  (component = "circle" /\ Mounted /\ Flushed /\ props.indeterminate) =>
    /\ \A size \in Sizes, thickness \in Thicknesses :
         LET circumference == Circumference(size, thickness)
             dash == indeterminateProps(circumference)
         IN /\ 100 * dash.arcLength = 25 * (100 * circumference)
            /\ 100 * dash.gapLength = 75 * (100 * circumference)
    /\ spinRotation.animation.type = "repeat"
    /\ ~spinRotation.animation.reverse
    /\ spinRotation.animation.startValue = 0
    /\ spinRotation.animation.toValue = FullTurn
    /\ spinRotation.animation.duration = props.spinDuration
    /\ spinRotation.value \in 0..FullTurn

\* C6: while the bar is indeterminate the segment is 30% of containerWidth,
\* its offset stays within [0, containerWidth - segment], and the loop is a
\* ping-pong between the two bounds over indeterminateDuration.
C6_SegmentOscillatesBetweenBounds ==
  (component = "bar" /\ Mounted /\ Flushed /\ props.indeterminate) =>
    LET width == containerWidth.value
        style == indeterminateStyle(width, indeterminateValue.value)
    IN /\ 100 * style.width = 30 * (100 * width)
       /\ style.translateX \in 0..(One * (100 * width - style.width))
       /\ indeterminateValue.animation.type = "repeat"
       /\ indeterminateValue.animation.reverse
       /\ {indeterminateValue.animation.startValue,
           indeterminateValue.animation.toValue} = {0, One}
       /\ indeterminateValue.animation.duration = props.indeterminateDuration

\* C7: in determinate mode the circle's dash offset is circumference *
\* (1 - fraction), negated when counter-clockwise; its magnitude is within
\* [0, circumference], it is the circumference at rest at progress 0 and 0
\* at rest at progress 1, and a quarter of the circumference at rest at
\* progress 0.75 (size 100, thickness 8, radius 46).
C7_DashOffset ==
  (component = "circle" /\ Mounted /\ ~props.indeterminate) =>
    /\ \A size \in Sizes, thickness \in Thicknesses,
          isCounterClockwise \in BOOLEAN :
         LET circumference == Circumference(size, thickness)
             offset == determinateProps(circumference, isCounterClockwise,
                                        progressValue.value)
             magnitude == IF isCounterClockwise THEN 0 - offset ELSE offset
         IN /\ magnitude = circumference * (One - progressValue.value)
            /\ magnitude \in 0..(circumference * One)
            /\ (AtRest /\ props.progress = 0) =>
                 magnitude = circumference * One
            /\ (AtRest /\ props.progress = One) => magnitude = 0
    /\ Radius(100, 8) = 46
    /\ (AtRest /\ 4 * props.progress = 3 * One) =>
         4 * determinateProps(Circumference(100, 8), FALSE,
                              progressValue.value)
           = One * Circumference(100, 8)

\* C8: in determinate mode the bar's filled width at rest is containerWidth
\* * clamp(progress) for any containerWidth > 0, hence within
\* [0, containerWidth]; progress 0.5 at a measured width of 200 gives 100.
C8_FilledWidth ==
  (component = "bar" /\ AtRest /\ ~props.indeterminate
     /\ containerWidth.value > 0) =>
    LET barWidth == determinateStyle(containerWidth.value,
                                     progressValue.value)
    IN /\ barWidth = Mul(containerWidth.value, Clamp(props.progress))
       /\ barWidth \in 0..(containerWidth.value * One)
       /\ (2 * props.progress = One /\ ~Truthy(props.width)
             /\ containerWidth.value = 200) => barWidth = 100 * One

\* C9 as stated: once the effects have run, containerWidth is the width prop
\* when that is explicit, and otherwise the width of the layout event
\* handled last.
C9_WidthResolution ==
  (Mounted /\ Flushed) =>
    /\ Truthy(props.width) => containerWidth.value = props.width
    /\ (~Truthy(props.width) /\ lastLayout # Null) =>
         containerWidth.value = lastLayout

\* C9 as amended: once the effects have run, containerWidth is the width
\* prop when that is explicit, whatever the layout events; otherwise, once
\* the layout events already emitted have been handled, it is the width of
\* the layout event handled last, which is the container's present width.
C9_WidthResolutionSettled ==
  (Mounted /\ Flushed) =>
    /\ Truthy(props.width) => containerWidth.value = props.width
    /\ (~Truthy(props.width) /\ layoutQueue = <<>>) =>
         /\ lastLayout # Null
         /\ containerWidth.value = lastLayout
         /\ lastLayout = parentWidth

\* The parent was resized and the measured width has followed.
C9_Witness ==
  /\ Mounted /\ Flushed
  /\ ~Truthy(props.width)
  /\ layoutQueue = <<>>
  /\ parentWidth = 300
  /\ containerWidth.value = 300

\* ------------------------------------------------- what holds of numbers

\* A fraction that is a number is within [0,1]: values below 0 and above 1
\* are clamped, and only NaN passes the clamp.
FractionOfNumbers ==
  /\ progressValue.value \in (0..One) \cup {NaN}
  /\ Running(progressValue) =>
       progressValue.animation.toValue \in (0..One) \cup {NaN}
  /\ \A progress \in ProgressValues :
       ~IsNaN(progress) => InUnit(Clamp(progress))

\* With a fraction that is a number, the dash offset is as C7 states it.
DashOffsetOfNumbers ==
  (component = "circle" /\ Mounted /\ ~props.indeterminate
     /\ ~IsNaN(progressValue.value)) =>
    /\ \A size \in Sizes, thickness \in Thicknesses,
          isCounterClockwise \in BOOLEAN :
         LET circumference == Circumference(size, thickness)
             offset == determinateProps(circumference, isCounterClockwise,
                                        progressValue.value)
             magnitude == IF isCounterClockwise THEN 0 - offset ELSE offset
         IN /\ magnitude = circumference * (One - progressValue.value)
            /\ magnitude \in 0..(circumference * One)
            /\ (AtRest /\ props.progress = 0) =>
                 magnitude = circumference * One
            /\ (AtRest /\ props.progress = One) => magnitude = 0
    /\ (AtRest /\ 4 * props.progress = 3 * One) =>
         4 * determinateProps(Circumference(100, 8), FALSE,
                              progressValue.value)
           = One * Circumference(100, 8)

\* With a fraction that is a number, the filled width is as C8 states it.
FilledWidthOfNumbers ==
  (component = "bar" /\ AtRest /\ ~props.indeterminate
     /\ containerWidth.value > 0 /\ ~IsNaN(progressValue.value)) =>
    LET barWidth == determinateStyle(containerWidth.value,
                                     progressValue.value)
    IN /\ barWidth = containerWidth.value * Clamp(props.progress)
       /\ barWidth \in 0..(containerWidth.value * One)
       /\ (2 * props.progress = One /\ ~Truthy(props.width)
             /\ containerWidth.value = 200) => barWidth = 100 * One

\* The spin always heads for 360 degrees over spinDuration without reverse
\* and stays within a turn; it is where a cycle starts that the restart of
\* the loop moves.
SpinWithinTurn ==
  (component = "circle" /\ Mounted /\ Flushed /\ props.indeterminate) =>
    /\ spinRotation.animation.type = "repeat"
    /\ ~spinRotation.animation.reverse
    /\ spinRotation.animation.toValue = FullTurn
    /\ spinRotation.animation.startValue \in 0..FullTurn
    /\ spinRotation.animation.duration = props.spinDuration
    /\ spinRotation.value \in 0..FullTurn

\* The segment is 30% of containerWidth and its offset stays within
\* [0, containerWidth - segment]; the upper bound is always one end of the
\* ping-pong, and it is the other end that the restart of the loop moves.
SegmentWithinBounds ==
  (component = "bar" /\ Mounted /\ Flushed /\ props.indeterminate) =>
    LET width == containerWidth.value
        style == indeterminateStyle(width, indeterminateValue.value)
    IN /\ 100 * style.width = 30 * (100 * width)
       /\ style.translateX \in 0..(One * (100 * width - style.width))
       /\ indeterminateValue.animation.type = "repeat"
       /\ indeterminateValue.animation.reverse
       /\ One \in {indeterminateValue.animation.startValue,
                   indeterminateValue.animation.toValue}
       /\ indeterminateValue.animation.duration = props.indeterminateDuration

====
